---- MODULE Spec2Model ----
(***************************************************************************)
(* Model of the MarketUpdater watcher (src/main.go): the supervisor loop   *)
(* of main, Initialize / UpdateToken / Connect, the Listen loop with its   *)
(* reader goroutine, and processMessage.                                   *)
(*                                                                         *)
(* Time is a discrete clock `now`; one unit stands for the token lifetime  *)
(* granularity (TokenLife units = 9 minutes).  Connections are numbered in *)
(* dial order; closes[c] counts the Close calls made on connection c.      *)
(* sent is the sequence of frames written on d.conn since it was dialed    *)
(* (of the pings, the first MaxPings), inflight[c] the number of           *)
(* WriteMessage calls in progress on c.                                    *)
(* d.lastPing (line 218) is written and never read and is not modelled.    *)
(***************************************************************************)
EXTENDS Integers, FiniteSets, Sequences, TLC

\* ---- program constants -------------------------------------------------
MaxRetries == 5
TokenLife == 1
ItemTag == "newitems_go"
Channels == <<"newitems_go">>
Ping == "ping"

\* ---- bounds of the model -----------------------------------------------
MaxCycles == 2      \* outer iterations of main explored by Spec
MaxFailures == 6    \* outer iterations explored by SupervisorSpec
MaxConns == 2       \* successful dials
MaxTime == 3        \* clock values
MaxPings == 1       \* pings per connection that sent keeps a record of

VARIABLES
    pc,            \* position of the main goroutine
    proc,          \* "running" | "fatal" (logger.Fatal) | "panic"
    retries,       \* d.retries
    token,         \* d.token
    tokenExpires,  \* d.tokenExpires
    conn,          \* d.conn: 0 = nil, else the connection number
    nconn,         \* number of connections dialed so far
    closes,        \* closes[c]: Close calls made on connection c
    err,           \* the error value main is looking at
    now,           \* time.Now()
    rpc,           \* rpc[s]: position of the reader goroutine of Listen call s
    rconn,         \* rconn[s]: connection the reader is blocked on in ReadMessage,
                   \*   or that the frame it is processing came from
    rmsg,          \* rmsg[s]: what the reader's last processMessage call found in
                   \*   the frame it was given (NoFrame once it is back in ReadMessage)
    rlog,          \* rlog[s]: what the reader's last processMessage call wrote to
                   \*   the logger ("none" once it is back in ReadMessage)
    fails,         \* history: failed cycles handled by main so far
    exchanged,     \* history: a token exchange succeeded in this outer iteration
    startToken,    \* history: the held token when this outer iteration began:
                   \*   "absent" | "expired" | "valid"
    dialed,        \* history: a dial was attempted in this outer iteration
    sent,          \* frames written on d.conn since it was dialed, in order
    inflight,      \* inflight[c]: WriteMessage calls in progress on connection c
    itemData,      \* processMessage's itemData (line 134), for the rendering
    buffer         \* processMessage's buffer (line 140): the lines written so far

vars == <<pc, proc, retries, token, tokenExpires, conn, nconn, closes,
          err, now, rpc, rconn, rmsg, rlog, fails, exchanged, startToken,
          dialed, sent, inflight, itemData, buffer>>

mainVars == <<pc, retries, token, tokenExpires, conn, nconn, closes,
              err, fails, exchanged, startToken, dialed, sent, inflight>>
readerVars == <<rpc, rconn, rmsg, rlog>>
decodeVars == <<itemData, buffer>>

Conns == 1..MaxConns
Tokens == {"", "abc123"}

NoFrame == [top |-> "none", type |-> "none", data |-> "none", stickers |-> "none"]

\* Inbound frames, by what the two json.Unmarshal passes and the type
\* assertions of processMessage can tell apart.
Frames ==
    { [top |-> "notjson", type |-> "none", data |-> "none", stickers |-> "none"],
      [top |-> "object", type |-> "other", data |-> "absent", stickers |-> "none"],
      [top |-> "object", type |-> ItemTag, data |-> "absent", stickers |-> "none"],
      [top |-> "object", type |-> ItemTag, data |-> "notstring", stickers |-> "none"],
      [top |-> "object", type |-> ItemTag, data |-> "badjson", stickers |-> "none"],
      [top |-> "object", type |-> ItemTag, data |-> "json", stickers |-> "absent"],
      [top |-> "object", type |-> ItemTag, data |-> "json", stickers |-> "numbers"],
      [top |-> "object", type |-> ItemTag, data |-> "json", stickers |-> "nonnumbers"] }

\* No item is being rendered.
NoItem == [none |-> TRUE]

\* Responses of the token endpoint as UpdateToken sees them.
TokenResponses ==
    { [kind |-> "neterr", success |-> FALSE, token |-> ""],
      [kind |-> "readerr", success |-> FALSE, token |-> ""],
      [kind |-> "parseerr", success |-> FALSE, token |-> ""],
      [kind |-> "body", success |-> FALSE, token |-> ""] }
    \cup { [kind |-> "body", success |-> TRUE, token |-> t] : t \in Tokens }

Init ==
    /\ pc = "Initialize"
    /\ proc = "running"
    /\ retries = 0
    /\ token = ""
    /\ tokenExpires = 0
    /\ conn = 0
    /\ nconn = 0
    /\ closes = [c \in Conns |-> 0]
    /\ err = "nil"
    /\ now = 1
    /\ rpc = [c \in Conns |-> "none"]
    /\ rconn = [c \in Conns |-> 0]
    /\ rmsg = [c \in Conns |-> NoFrame]
    /\ rlog = [c \in Conns |-> "none"]
    /\ fails = 0
    /\ exchanged = FALSE
    /\ startToken = "absent"
    /\ itemData = NoItem
    /\ buffer = <<>>
    /\ dialed = FALSE
    /\ sent = <<>>
    /\ inflight = [c \in Conns |-> 0]

\* A connection that was dialed and on which Close was never called.
IsOpen(c) == c \in 1..nconn /\ closes[c] = 0
OpenConns == {c \in Conns : IsOpen(c)}

\* ---- the clock ----------------------------------------------------------
Tick ==
    /\ proc = "running"
    /\ now < MaxTime
    /\ now' = now + 1
    /\ UNCHANGED proc
    /\ UNCHANGED mainVars
    /\ UNCHANGED readerVars
    /\ UNCHANGED decodeVars

\* ---- main: Initialize ---------------------------------------------------
\* main line 232 calls Initialize, which sets d.retries = 0 (line 44).
InitializeWithin(k) ==
    /\ proc = "running"
    /\ pc = "Initialize"
    /\ fails < k
    /\ retries' = 0
    /\ startToken' = (IF token = "" THEN "absent"
                      ELSE IF now >= tokenExpires THEN "expired" ELSE "valid")
    /\ exchanged' = FALSE
    /\ dialed' = FALSE
    /\ pc' = "InitUpdateToken"
    /\ UNCHANGED <<proc, token, tokenExpires, conn, nconn, closes, err,
                   now, fails, sent, inflight>>
    /\ UNCHANGED readerVars
    /\ UNCHANGED decodeVars

Initialize == InitializeWithin(MaxCycles)

\* Mutant of UpdateToken: a failed exchange clears the held token.
UpdateTokenClears(next) ==
    \E r \in TokenResponses :
        /\ IF r.kind = "body" /\ r.success
           THEN /\ token' = r.token
                /\ tokenExpires' = now + TokenLife
                /\ exchanged' = TRUE
                /\ err' = "nil"
                /\ pc' = next
           ELSE /\ err' = "token_remote"
                /\ pc' = "InitFailed"
                /\ token' = ""
                /\ UNCHANGED <<tokenExpires, exchanged>>
        /\ UNCHANGED <<proc, retries, conn, nconn, closes, now, fails,
                       startToken, dialed, sent, inflight>>
        /\ UNCHANGED readerVars
        /\ UNCHANGED decodeVars

\* UpdateToken (lines 51-85), returning to `next` on success; every failure
\* is returned up to main through Initialize.
UpdateToken(next) ==
    \E r \in TokenResponses :
        /\ IF r.kind = "body" /\ r.success
           THEN /\ token' = r.token
                /\ tokenExpires' = now + TokenLife
                /\ exchanged' = TRUE
                /\ err' = "nil"
                /\ pc' = next
           ELSE /\ err' = (CASE r.kind = "neterr" -> "token_net"
                             [] r.kind = "readerr" -> "token_read"
                             [] r.kind = "parseerr" -> "token_parse"
                             [] OTHER -> "token_remote")
                /\ pc' = "InitFailed"
                /\ UNCHANGED <<token, tokenExpires, exchanged>>
        /\ UNCHANGED <<proc, retries, conn, nconn, closes, now, fails,
                       startToken, dialed, sent, inflight>>
        /\ UNCHANGED readerVars
        /\ UNCHANGED decodeVars

\* Mutant of InitUpdateToken: Initialize goes straight to Connect.
InitSkipUpdateToken ==
    /\ proc = "running"
    /\ pc = "InitUpdateToken"
    /\ pc' = "ConnectCheck"
    /\ UNCHANGED <<proc, retries, token, tokenExpires, conn, nconn, closes, err, now,
                   fails, exchanged, startToken, dialed, sent, inflight>>
    /\ UNCHANGED readerVars
    /\ UNCHANGED decodeVars

\* Initialize lines 45-48.
InitUpdateToken ==
    /\ proc = "running"
    /\ pc = "InitUpdateToken"
    /\ UpdateToken("ConnectCheck")

\* Connect line 88: time.Now().After(d.tokenExpires).
TokenExpired(t, exp) == t > exp

ConnectCheck ==
    /\ proc = "running"
    /\ pc = "ConnectCheck"
    /\ pc' = IF TokenExpired(now, tokenExpires) THEN "ConnUpdateToken" ELSE "Dial"
    /\ UNCHANGED <<proc, retries, token, tokenExpires, conn, nconn, closes,
                   err, now, fails, exchanged, startToken, dialed, sent, inflight>>
    /\ UNCHANGED readerVars
    /\ UNCHANGED decodeVars

\* Connect lines 89-91.
ConnUpdateToken ==
    /\ proc = "running"
    /\ pc = "ConnUpdateToken"
    /\ UpdateToken("Dial")

\* Connect lines 94-107: the dial; on success d.conn is overwritten.
Dial ==
    /\ proc = "running"
    /\ pc = "Dial"
    /\ dialed' = TRUE
    /\ \/ /\ nconn < MaxConns
          /\ nconn' = nconn + 1
          /\ conn' = nconn + 1
          /\ sent' = <<>>
          /\ pc' = "SendToken"
          /\ UNCHANGED err
       \/ /\ err' = "dial"
          /\ pc' = "InitFailed"
          /\ UNCHANGED <<conn, nconn, sent>>
    /\ UNCHANGED <<proc, retries, token, tokenExpires, closes, now, fails,
                   exchanged, startToken, inflight>>
    /\ UNCHANGED readerVars
    /\ UNCHANGED decodeVars

\* A call of d.conn.WriteMessage is entered (lines 109, 116, 215).
WriteBegin == inflight' = [inflight EXCEPT ![conn] = @ + 1]

\* The call returns.
WriteEnd == inflight' = [inflight EXCEPT ![conn] = @ - 1]

\* Mutant of SendToken: the token frame is never sent.
SendTokenSkipped ==
    /\ proc = "running"
    /\ pc = "SendToken"
    /\ pc' = "Subscribe"
    /\ UNCHANGED <<proc, retries, token, tokenExpires, conn, nconn, closes, err,
                   now, fails, exchanged, startToken, dialed, sent, inflight>>
    /\ UNCHANGED readerVars
    /\ UNCHANGED decodeVars

\* Connect lines 108-109: with a non-empty token, WriteMessage(d.token) is called.
SendToken ==
    /\ proc = "running"
    /\ pc = "SendToken"
    /\ IF token # ""
       THEN pc' = "TokenWrite" /\ WriteBegin
       ELSE pc' = "Subscribe" /\ UNCHANGED inflight
    /\ UNCHANGED <<proc, retries, token, tokenExpires, conn, nconn, closes, err,
                   now, fails, exchanged, startToken, dialed, sent>>
    /\ UNCHANGED readerVars
    /\ UNCHANGED decodeVars

\* Connect lines 109-113: the token write returns.
TokenWritten ==
    /\ proc = "running"
    /\ pc = "TokenWrite"
    /\ WriteEnd
    /\ \/ /\ sent' = Append(sent, token)
          /\ pc' = "Subscribe"
          /\ UNCHANGED err
       \/ /\ err' = "token_send"
          /\ pc' = "InitFailed"
          /\ UNCHANGED sent
    /\ UNCHANGED <<proc, retries, token, tokenExpires, conn, nconn, closes,
                   now, fails, exchanged, startToken, dialed>>
    /\ UNCHANGED readerVars
    /\ UNCHANGED decodeVars

\* Connect lines 115-116: WriteMessage(channel) is called for the one channel.
Subscribe ==
    /\ proc = "running"
    /\ pc = "Subscribe"
    /\ pc' = "SubscribeWrite"
    /\ WriteBegin
    /\ UNCHANGED <<proc, retries, token, tokenExpires, conn, nconn, closes, err,
                   now, fails, exchanged, startToken, dialed, sent>>
    /\ UNCHANGED readerVars
    /\ UNCHANGED decodeVars

\* Connect lines 116-123: the subscribe write returns; Connect returns.
Subscribed ==
    /\ proc = "running"
    /\ pc = "SubscribeWrite"
    /\ WriteEnd
    /\ \/ /\ sent' = Append(sent, Channels[1])
          /\ pc' = "Listen"
          /\ UNCHANGED err
       \/ /\ err' = "subscribe"
          /\ pc' = "InitFailed"
          /\ UNCHANGED sent
    /\ UNCHANGED <<proc, retries, token, tokenExpires, conn, nconn, closes,
                   now, fails, exchanged, startToken, dialed>>
    /\ UNCHANGED readerVars
    /\ UNCHANGED decodeVars

\* Mutant of InitFailed: the next iteration starts without the sleep.
InitFailedNoSleep ==
    /\ proc = "running"
    /\ pc = "InitFailed"
    /\ retries' = retries + 1
    /\ pc' = "Initialize"
    /\ err' = "nil"
    /\ fails' = fails + 1
    /\ UNCHANGED <<proc, token, tokenExpires, conn, nconn, closes, now,
                   exchanged, startToken, dialed, sent, inflight>>
    /\ UNCHANGED readerVars
    /\ UNCHANGED decodeVars

\* main lines 233-239.
InitFailed ==
    /\ proc = "running"
    /\ pc = "InitFailed"
    /\ IF retries >= MaxRetries
       THEN /\ proc' = "fatal"
            /\ UNCHANGED <<pc, retries, err>>
       ELSE /\ retries' = retries + 1
            /\ pc' = "Sleep"
            /\ err' = "nil"
            /\ UNCHANGED proc
    /\ fails' = fails + 1
    /\ UNCHANGED <<token, tokenExpires, conn, nconn, closes, now,
                   exchanged, startToken, dialed, sent, inflight>>
    /\ UNCHANGED readerVars
    /\ UNCHANGED decodeVars

\* main lines 238 and 249: time.Sleep(ReconnectDelay), then the next iteration.
Sleep ==
    /\ proc = "running"
    /\ pc = "Sleep"
    /\ pc' = "Initialize"
    /\ UNCHANGED <<proc, retries, token, tokenExpires, conn, nconn, closes,
                   err, now, fails, exchanged, startToken, dialed, sent, inflight>>
    /\ UNCHANGED readerVars
    /\ UNCHANGED decodeVars

\* ---- main: Listen -------------------------------------------------------
\* Listen lines 193-208: the deferred Close and ticker.Stop are registered,
\* the done channel is made and the reader goroutine is started.
Listen ==
    /\ proc = "running"
    /\ pc = "Listen"
    /\ rpc' = [rpc EXCEPT ![conn] = "loop"]
    /\ pc' = "Select"
    /\ UNCHANGED <<proc, retries, token, tokenExpires, conn, nconn, closes,
                   err, now, fails, exchanged, startToken, dialed, sent, inflight,
                   rconn, rmsg, rlog>>
    /\ UNCHANGED decodeVars

\* Mutant of ListenReturn: Listen returns without the deferred Close.
ListenReturnNoClose(e) ==
    /\ err' = e
    /\ closes' = closes
    /\ pc' = "ListenFailed"

\* A return statement of Listen: the deferred d.conn.Close() (line 193) runs
\* and the error goes back to main (line 242).
ListenReturn(e) ==
    /\ err' = e
    /\ closes' = [closes EXCEPT ![conn] = @ + 1]
    /\ pc' = "ListenFailed"

\* Mutant of SelectDone: the select never takes the done case.
SelectDoneNever ==
    /\ FALSE
    /\ UNCHANGED vars

\* Listen lines 212-213: the select receives the reader's error from done.
SelectDone ==
    /\ proc = "running"
    /\ pc = "Select"
    /\ rpc[conn] = "send"
    /\ rpc' = [rpc EXCEPT ![conn] = "exit"]
    /\ ListenReturn("reader")
    /\ UNCHANGED <<proc, retries, token, tokenExpires, conn, nconn, now,
                   fails, exchanged, startToken, dialed, sent, inflight,
                   rconn, rmsg, rlog>>
    /\ UNCHANGED decodeVars

\* Mutant of SelectTick: the ping is written by a goroutine of its own and
\* the loop goes back to the select at once.
SelectTickAsync ==
    /\ proc = "running"
    /\ pc = "Select"
    /\ inflight[conn] < 2
    /\ WriteBegin
    /\ UNCHANGED <<pc, proc, retries, token, tokenExpires, conn, nconn, closes, err,
                   now, fails, exchanged, startToken, dialed, sent>>
    /\ UNCHANGED readerVars
    /\ UNCHANGED decodeVars

\* Listen lines 214-215: the select takes a tick of the heartbeat ticker and
\* WriteMessage("ping") is called.
SelectTick ==
    /\ proc = "running"
    /\ pc = "Select"
    /\ pc' = "PingWrite"
    /\ WriteBegin
    /\ UNCHANGED <<proc, retries, token, tokenExpires, conn, nconn, closes, err,
                   now, fails, exchanged, startToken, dialed, sent>>
    /\ UNCHANGED readerVars
    /\ UNCHANGED decodeVars

\* The pings among the frames written so far.
Pings == Cardinality({i \in 1..Len(sent) : sent[i] = Ping /\ i > Len(Channels)})

\* Listen lines 215-218: the ping write returns; on success the loop goes
\* back to the select.
PingWritten ==
    /\ proc = "running"
    /\ pc = "PingWrite"
    /\ WriteEnd
    /\ \/ /\ sent' = IF Pings < MaxPings THEN Append(sent, Ping) ELSE sent
          /\ pc' = "Select"
          /\ UNCHANGED <<err, closes>>
       \/ /\ ListenReturn("ping")
          /\ UNCHANGED sent
    /\ UNCHANGED <<proc, retries, token, tokenExpires, conn, nconn, now,
                   fails, exchanged, startToken, dialed>>
    /\ UNCHANGED readerVars
    /\ UNCHANGED decodeVars

\* Mutant of ListenFailed: the Listen failure is not counted.
ListenFailedNoCount ==
    /\ proc = "running"
    /\ pc = "ListenFailed"
    /\ closes' = [closes EXCEPT ![conn] = @ + 1]
    /\ pc' = "Sleep"
    /\ err' = "nil"
    /\ fails' = fails + 1
    /\ UNCHANGED <<proc, retries, token, tokenExpires, conn, nconn, now, exchanged,
                   startToken, dialed, sent, inflight>>
    /\ UNCHANGED readerVars
    /\ UNCHANGED decodeVars

\* main lines 243-249.
ListenFailed ==
    /\ proc = "running"
    /\ pc = "ListenFailed"
    /\ closes' = [closes EXCEPT ![conn] = @ + 1]
    /\ IF retries >= MaxRetries
       THEN /\ proc' = "fatal"
            /\ UNCHANGED <<pc, retries, err>>
       ELSE /\ retries' = retries + 1
            /\ pc' = "Sleep"
            /\ err' = "nil"
            /\ UNCHANGED proc
    /\ fails' = fails + 1
    /\ UNCHANGED <<token, tokenExpires, conn, nconn, now, exchanged,
                   startToken, dialed, sent, inflight>>
    /\ UNCHANGED readerVars
    /\ UNCHANGED decodeVars

\* ---- the reader goroutine (Listen lines 199-208) ------------------------
\* Line 201 evaluates d.conn and enters ReadMessage on that connection.
ReaderLoop(s) ==
    /\ proc = "running"
    /\ rpc[s] = "loop"
    /\ rconn' = [rconn EXCEPT ![s] = conn]
    /\ rpc' = [rpc EXCEPT ![s] = "reading"]
    /\ rlog' = [rlog EXCEPT ![s] = "none"]
    /\ rmsg' = [rmsg EXCEPT ![s] = NoFrame]
    /\ UNCHANGED <<proc, now>>
    /\ UNCHANGED mainVars
    /\ UNCHANGED decodeVars

\* ReadMessage returns: a frame, or an error (always an error once the
\* connection has been closed locally).  What the frame holds is found by
\* processMessage.
ReaderRead(s) ==
    /\ proc = "running"
    /\ rpc[s] = "reading"
    /\ \/ /\ IsOpen(rconn[s])
          /\ rpc' = [rpc EXCEPT ![s] = "process"]
          /\ UNCHANGED rconn
       \/ /\ rpc' = [rpc EXCEPT ![s] = "send"]
          /\ rconn' = [rconn EXCEPT ![s] = 0]
    /\ UNCHANGED <<proc, now, rmsg, rlog>>
    /\ UNCHANGED mainVars
    /\ UNCHANGED decodeVars

\* Mutant of processMessage: a frame that is not JSON is treated as fatal.
processMessageFatal(m) ==
    IF m.top # "object" THEN "panic"
    ELSE IF m.type # ItemTag THEN "return"
    ELSE IF m.data \in {"absent", "notstring"} THEN "panic"
    ELSE IF m.data = "badjson" THEN "Data parse error"
    ELSE IF m.stickers = "nonnumbers" THEN "panic"
    ELSE "item record"

\* processMessage (lines 126-168): what one call does with frame m.
\*   "panic"  - a failed unchecked type assertion (line 135 or line 155)
\*   "return" - nothing logged (type is not the item tag)
\*   otherwise the record that is logged.
processMessage(m) ==
    IF m.top # "object" THEN "Non-JSON message"
    ELSE IF m.type # ItemTag THEN "return"
    ELSE IF m.data \in {"absent", "notstring"} THEN "panic"
    ELSE IF m.data = "badjson" THEN "Data parse error"
    ELSE IF m.stickers = "nonnumbers" THEN "panic"
    ELSE "item record"

\* Line 206: d.processMessage(msg) on the frame m that was received; a panic
\* in the goroutine ends the process.
ReaderProcess(s) ==
    /\ proc = "running"
    /\ rpc[s] = "process"
    /\ \E m \in Frames :
         LET out == processMessage(m) IN
         /\ rmsg' = [rmsg EXCEPT ![s] = m]
         /\ IF out = "panic"
            THEN /\ proc' = "panic"
                 /\ rpc' = [rpc EXCEPT ![s] = "panicked"]
                 /\ UNCHANGED <<rlog, rconn>>
            ELSE /\ rpc' = [rpc EXCEPT ![s] = "loop"]
                 /\ rconn' = [rconn EXCEPT ![s] = 0]
                 /\ rlog' = [rlog EXCEPT ![s] = IF out = "return" THEN "none" ELSE out]
                 /\ UNCHANGED proc
    /\ UNCHANGED now
    /\ UNCHANGED mainVars
    /\ UNCHANGED decodeVars

Reader == \E s \in Conns : ReaderLoop(s) \/ ReaderRead(s) \/ ReaderProcess(s)

Main ==
    \/ Initialize \/ InitUpdateToken \/ ConnectCheck \/ ConnUpdateToken
    \/ Dial \/ SendToken \/ TokenWritten \/ Subscribe \/ Subscribed
    \/ InitFailed \/ Sleep
    \/ Listen \/ SelectDone \/ SelectTick \/ PingWritten \/ ListenFailed

Next == Main \/ Reader \/ Tick

Spec == Init /\ [][Next]_vars

\* The main goroutine on its own (the reader goroutine is never scheduled, so
\* a session ends by a failed ping), followed for MaxFailures iterations.
InitializeSup == InitializeWithin(MaxFailures)

NextSupervisor ==
    \/ InitializeSup \/ InitUpdateToken \/ ConnectCheck \/ ConnUpdateToken
    \/ Dial \/ SendToken \/ TokenWritten \/ Subscribe \/ Subscribed
    \/ InitFailed \/ Sleep
    \/ Listen \/ SelectTick \/ PingWritten \/ ListenFailed \/ Tick

SupervisorSpec == Init /\ [][NextSupervisor]_vars

\* The program under fair scheduling: the main goroutine keeps running, and
\* the select of Listen (line 211), which picks among its ready cases at
\* random, does not pass over a ready done case forever.
FairSpec == Spec /\ WF_vars(Main) /\ SF_vars(SelectDone)

\* ---- the rendering of one item (processMessage lines 140-166) -----------
\* Texts are sequences of characters.  A JSON value is absent from the map,
\* null, a string, a number (counted in hundredths) or an array.
Absent == [k |-> "absent"]
Null == [k |-> "null"]
Str(t) == [k |-> "string", v |-> t]
Num(n) == [k |-> "number", v |-> n]
Arr(a) == [k |-> "array", v |-> a]

Digits == <<"0", "1", "2", "3", "4", "5", "6", "7", "8", "9">>

RECURSIVE Decimal(_)
Decimal(n) == IF n < 10 THEN <<Digits[n + 1]>>
              ELSE Decimal(n \div 10) \o <<Digits[(n % 10) + 1]>>

\* fmt.Sprintf("%.2f", v) for v = n / 100.
Format2(n) == Decimal(n \div 100) \o <<".", Digits[((n % 100) \div 10) + 1],
                                         Digits[(n % 10) + 1]>>

\* fmt.Sprintf("%.0f", v) for v = n / 100: to the nearest integer, halves to even.
Format0(n) ==
    LET q == n \div 100
        r == n % 100
    IN  Decimal(IF r > 50 \/ (r = 50 /\ q % 2 = 1) THEN q + 1 ELSE q)

\* fmt.Sprintf("%v", v) for the values that are neither string nor number.
FormatV(val) == IF val.k = "null" THEN <<"<", "n", "i", "l", ">">>
                ELSE <<"[", "]">>

\* getValue (lines 170-190).
getValue(data, key, defaultValue) ==
    LET val == data[key] IN
    CASE val.k = "absent" -> defaultValue
      [] val.k = "string" -> val.v
      [] val.k = "number" -> Format2(val.v)
      [] OTHER -> FormatV(val)

\* strings.ReplaceAll(t, `\/`, `/`) (line 162).
RECURSIVE Unescape(_)
Unescape(t) ==
    IF t = <<>> THEN <<>>
    ELSE IF Len(t) >= 2 /\ t[1] = "\\" /\ t[2] = "/"
         THEN <<"/">> \o Unescape(SubSeq(t, 3, Len(t)))
         ELSE <<t[1]>> \o Unescape(Tail(t))

Line(tag, text) == [tag |-> tag, text |-> text]
Banner == Line("banner", <<>>)

\* Lines 141-147: the banner and the Item, Quality and Price lines.
HeadLines(data) ==
    << Banner,
       Line("Item", getValue(data, "i_market_name", <<>>)),
       Line("Quality", getValue(data, "i_quality", <<"-", "-">>)),
       Line("Price", getValue(data, "ui_price", <<>>) \o <<" ">>
                       \o getValue(data, "ui_currency", <<>>)) >>

\* Lines 149-151.
FloatLines(data) ==
    LET floatVal == getValue(data, "ui_float", <<>>) IN
    IF floatVal # <<>> /\ floatVal # <<"<", "n", "i", "l", ">">>
    THEN <<Line("Float", floatVal)>> ELSE <<>>

\* Line 153: the checked assertion to []interface{} and the length test.
HasStickers(data) == data["stickers"].k = "array" /\ data["stickers"].v # <<>>

\* Line 155: the first sticker (0 if none) whose unchecked assertion to
\* float64 fails.
FirstBadSticker(a) ==
    LET bad == {i \in 1..Len(a) : a[i].k # "number"} IN
    IF bad = {} THEN 0 ELSE CHOOSE i \in bad : \A j \in bad : i <= j

\* Lines 153-158, for the first n stickers.
StickerLines(data, n) ==
    IF HasStickers(data)
    THEN <<Line("Stickers", <<>>)>>
         \o [i \in 1..n |-> Line("ID", Format0(data["stickers"].v[i].v))]
    ELSE <<>>

\* Lines 160-163.
InspectLines(data) ==
    LET inspectURL == getValue(data, "inspect_url", <<>>) IN
    IF inspectURL # <<>> THEN <<Line("Inspect", Unescape(inspectURL))>> ELSE <<>>

\* Decoded item data the rendering is run on.
ItemDatas ==
    [ i_market_name : {Absent, Str(<<"A", "K">>)},
      i_quality : {Absent, Str(<<"S", "T">>)},
      ui_price : {Absent, Str(<<"1", "2", ".", "5", "0">>), Num(1250)},
      ui_currency : {Absent, Str(<<"U", "S", "D">>)},
      ui_float : {Absent, Null, Str(<<>>), Str(<<"0", ".", "0", "7">>), Num(7)},
      stickers : {Absent, Null, Arr(<<>>), Arr(<<Num(100), Num(250)>>),
                  Arr(<<Str(<<"x">>)>>), Arr(<<Num(100), Null>>)},
      inspect_url : {Absent, Str(<<>>), Str(<<"s", ":", "\\", "/", "\\", "/", "r">>)} ]

\* processMessage has decoded some item data and is about to render it.
InitDecoder ==
    /\ pc = "Initialize"
    /\ proc = "running"
    /\ retries = 0
    /\ token = ""
    /\ tokenExpires = 0
    /\ conn = 0
    /\ nconn = 0
    /\ closes = [c \in Conns |-> 0]
    /\ err = "nil"
    /\ now = 1
    /\ rpc = [c \in Conns |-> "none"]
    /\ rconn = [c \in Conns |-> 0]
    /\ rmsg = [c \in Conns |-> NoFrame]
    /\ rlog = [c \in Conns |-> "none"]
    /\ fails = 0
    /\ exchanged = FALSE
    /\ startToken = "absent"
    /\ dialed = FALSE
    /\ sent = <<>>
    /\ inflight = [c \in Conns |-> 0]
    /\ itemData \in ItemDatas
    /\ buffer = <<>>

\* Lines 140-166 on itemData: the buffer is filled; a sticker that is not a
\* number panics at line 155 with the buffer filled up to there.
RenderItem ==
    /\ proc = "running"
    /\ itemData # NoItem
    /\ buffer = <<>>
    /\ LET bad == IF HasStickers(itemData)
                  THEN FirstBadSticker(itemData["stickers"].v) ELSE 0
           head == HeadLines(itemData) \o FloatLines(itemData)
       IN  IF bad # 0
           THEN /\ proc' = "panic"
                /\ buffer' = head \o StickerLines(itemData, bad - 1)
           ELSE /\ proc' = proc
                /\ buffer' = head
                       \o StickerLines(itemData,
                              IF HasStickers(itemData)
                              THEN Len(itemData["stickers"].v) ELSE 0)
                       \o InspectLines(itemData) \o <<Banner>>
    /\ UNCHANGED <<itemData, now>>
    /\ UNCHANGED mainVars
    /\ UNCHANGED readerVars

DecoderSpec == InitDecoder /\ [][RenderItem]_vars

TypeOK ==
    /\ pc \in {"Initialize", "InitUpdateToken", "ConnectCheck", "ConnUpdateToken",
               "Dial", "SendToken", "TokenWrite", "Subscribe", "SubscribeWrite",
               "InitFailed", "Sleep", "Listen", "Select", "PingWrite",
               "ListenFailed"}
    /\ proc \in {"running", "fatal", "panic"}
    /\ retries \in 0..MaxRetries
    /\ token \in Tokens
    /\ tokenExpires \in 0..(MaxTime + TokenLife)
    /\ conn \in 0..MaxConns
    /\ nconn \in 0..MaxConns
    /\ closes \in [Conns -> 0..2]
    /\ now \in 1..MaxTime
    /\ rpc \in [Conns -> {"none", "loop", "reading", "process", "send", "exit",
                          "panicked"}]
    /\ rconn \in [Conns -> 0..MaxConns]
    /\ rmsg \in [Conns -> Frames \cup {NoFrame}]
    /\ rlog \in [Conns -> {"none", "Non-JSON message", "Data parse error",
                           "item record"}]
    /\ fails \in 0..MaxFailures
    /\ err \in {"nil", "token_net", "token_read", "token_parse", "token_remote",
                "dial", "token_send", "subscribe", "reader", "ping"}
    /\ exchanged \in BOOLEAN
    /\ startToken \in {"absent", "expired", "valid"}
    /\ dialed \in BOOLEAN
    /\ sent \in Seq(Tokens \cup {Channels[1], Ping})
    /\ Len(sent) <= 1 + Len(Channels) + MaxPings
    /\ inflight \in [Conns -> 0..1]

\* =========================================================================
\* Claims
\* =========================================================================

\* The main goroutine has just left the failure branch it was in (or exited).
MainHandled == pc' # pc \/ proc' = "fatal"

\* Reader s has just finished the processMessage call it was in.
Processed(s) == rpc[s] = "process" /\ rpc'[s] # "process"

\* C1: after exactly MaxRetries failed initialize-or-listen cycles the process
\* has terminated fatally, and after fewer it has not (it retries).
C1_RetryBound ==
    /\ fails >= MaxRetries => proc = "fatal"
    /\ fails < MaxRetries => proc # "fatal"

\* C2: when every cycle fails the process does not keep retrying: once more
\* than MaxRetries cycles have failed it is no longer running.
C2_NoEndlessRetry == fails > MaxRetries => proc # "running"

\* C3: the retry counter is cumulative: a step that changes it adds exactly 1;
\* no step decreases or resets it.
C3_CounterCumulative == [][retries' # retries => retries' = retries + 1]_vars

\* C4: whenever main is about to dial (or has dialed) in an outer iteration
\* that began with an expired or absent token, a token exchange has succeeded
\* earlier in that same iteration.
C4_RefreshBeforeDial ==
    (pc \in {"Dial", "SendToken", "TokenWrite", "Subscribe", "SubscribeWrite"}
       /\ startToken \in {"absent", "expired"})
        => exchanged

\* C4 witness: main is about to dial in an iteration that began with a held
\* but expired token, after refreshing it.
C4_Witness == pc = "Dial" /\ startToken = "expired" /\ exchanged

\* C5: Connect goes on to the dial without a refresh if and only if
\* now < expiresAt; at now = expiresAt it refreshes first.
C5_StrictExpiry ==
    [][(pc = "ConnectCheck" /\ pc' # pc) => (pc' = "Dial" <=> now < tokenExpires)]_vars

\* C6: processing a frame whose type is the item tag is never fatal, whatever
\* its data field is: the reader goes on to the next receive, Listen does not
\* return, the retry counter is unchanged and the process keeps running.
C6_DecodeLocal ==
    [][\A s \in Conns :
          (Processed(s) /\ rmsg'[s].top = "object" /\ rmsg'[s].type = ItemTag)
              => (rpc'[s] = "loop" /\ proc' = "running"
                  /\ UNCHANGED <<pc, retries, err>>)]_vars

\* C7: a frame that fails top-level JSON parsing is logged and the reader goes
\* on to the next receive; Listen does not return, no connection is closed,
\* the retry counter is unchanged and the process keeps running.
C7_NotJSONContinues ==
    [][\A s \in Conns :
          (Processed(s) /\ rmsg'[s].top # "object")
              => (rpc'[s] = "loop" /\ rlog'[s] = "Non-JSON message"
                  /\ proc' = "running"
                  /\ UNCHANGED <<pc, retries, err, closes, conn>>)]_vars

\* C7 witness: during a live session the reader is back at its receive after
\* logging a frame that was not JSON.
C7_Witness ==
    /\ pc = "Select" /\ IsOpen(conn)
    /\ rpc[conn] = "loop" /\ rlog[conn] = "Non-JSON message"

\* C8: when Listen has returned to main, the error is the reader's receive
\* error (its goroutine has handed it over and exited) or the heartbeat send
\* error, never nil, and the session's connection has been closed.
C8_ListenReturn ==
    pc = "ListenFailed" =>
        /\ err \in {"reader", "ping"}
        /\ err = "reader" => rpc[conn] = "exit"
        /\ closes[conn] >= 1

\* C8 witness: Listen has returned the reader's error.
C8_Witness == pc = "ListenFailed" /\ err = "reader" /\ closes[conn] = 1

\* C9: main handles a Listen failure like an Initialize failure: the maximum
\* is checked (fatal when reached), otherwise the counter goes up by exactly
\* one and main goes to the sleep that precedes the next Initialize; after a
\* Listen failure the session's connection is closed.
C9_ListenFailureHandled ==
    [][/\ (pc \in {"InitFailed", "ListenFailed"} /\ MainHandled)
          => IF retries >= MaxRetries
             THEN proc' = "fatal"
             ELSE retries' = retries + 1 /\ pc' = "Sleep" /\ proc' = proc
       /\ (pc = "ListenFailed" /\ MainHandled) => closes'[conn] >= 1
       /\ (pc = "Sleep" /\ pc' # pc) => pc' = "Initialize"]_vars

\* C9 witness: main sleeps after a failed Listen in its first cycle, the failure counted and the
\* session's connection closed.
C9_Witness == pc = "Sleep" /\ fails = 1 /\ retries = 1 /\ conn # 0 /\ closes[conn] = 2

\* C10: at most one dialed connection is open at any time.
C10_OneLiveConn == Cardinality(OpenConns) <= 1

\* The errors UpdateToken returns (lines 56, 63, 73 and 84).
TokenErrors == {"token_net", "token_read", "token_parse", "token_remote"}

\* The main goroutine has just come out of a call of UpdateToken.
ExchangeStep == pc \in {"InitUpdateToken", "ConnUpdateToken"} /\ pc' # pc

\* C11: a failed token exchange leaves token and expiry unchanged and goes
\* to main's failure branch with no dial attempted in that outer iteration,
\* where the cycle is counted as failed; token and expiry change only in a
\* successful exchange, which sets the expiry to now + TokenLife.
C11_FailedExchange ==
    [][/\ (ExchangeStep /\ pc' = "InitFailed")
          => (UNCHANGED <<token, tokenExpires>> /\ err' \in TokenErrors /\ ~dialed')
       /\ (pc = "InitFailed" /\ err \in TokenErrors /\ MainHandled)
          => /\ ~dialed /\ ~dialed'
             /\ fails' = fails + 1
             /\ IF retries >= MaxRetries THEN proc' = "fatal"
                ELSE retries' = retries + 1 /\ pc' = "Sleep"
       /\ (token' # token \/ tokenExpires' # tokenExpires)
          => (ExchangeStep /\ pc' # "InitFailed" /\ exchanged'
              /\ tokenExpires' = now + TokenLife)]_vars

\* C11 witness: a token exchange has failed while a token was held; the
\* token is still held and nothing was dialed in this iteration.
C11_Witness ==
    pc = "InitFailed" /\ err = "token_remote" /\ token # "" /\ fails >= 1 /\ ~dialed

\* Some optional field is missing from the decoded data.
LacksOptional(data) ==
    \E f \in {"ui_float", "stickers", "inspect_url", "i_quality"} : data[f] = Absent

\* The tags of the lines written to the buffer.
Tags == {buffer[i].tag : i \in 1..Len(buffer)}

\* C12: a record rendered from data that lacks an optional field raises no
\* error, has the Item, Quality and Price lines after the opening banner and
\* ends with the closing banner, has no Float, Stickers or Inspect section
\* for a missing ui_float, stickers or inspect_url, and has Quality "--" for
\* a missing i_quality.
C12_OptionalFieldsOmitted ==
    (itemData # NoItem /\ buffer # <<>> /\ LacksOptional(itemData)) =>
        /\ proc # "panic"
        /\ Len(buffer) >= 5
        /\ buffer[1] = Banner /\ buffer[Len(buffer)] = Banner
        /\ buffer[2].tag = "Item" /\ buffer[3].tag = "Quality" /\ buffer[4].tag = "Price"
        /\ itemData["ui_float"] = Absent => "Float" \notin Tags
        /\ itemData["stickers"] = Absent => "Stickers" \notin Tags
        /\ itemData["inspect_url"] = Absent => "Inspect" \notin Tags
        /\ itemData["i_quality"] = Absent => buffer[3].text = <<"-", "-">>

\* C13: a token exchange is performed only when the held token is absent or
\* expired (a held token with now < expiry is reused without an exchange),
\* and an iteration that begins without a usable token does not dial before
\* an exchange has succeeded.
C13_ExchangeOnlyWhenNeeded ==
    [][/\ ExchangeStep => (token = "" \/ now >= tokenExpires)
       /\ (pc' = "Dial" /\ pc # "Dial" /\ startToken # "valid") => exchanged]_vars

\* The frames Connect sends on a connection, in order (lines 108-120).
Handshake == (IF token # "" THEN <<token>> ELSE <<>>) \o Channels

\* C14: while Connect is sending, what has been sent is a prefix of the
\* handshake (the token first, then one subscribe frame per channel) and the
\* connection has no reader; once Listen is entered the handshake is complete
\* and is followed by pings only; after a failed send the connection gets no
\* reader.
C14_HandshakeOrder ==
    /\ pc \in {"SendToken", "TokenWrite", "Subscribe", "SubscribeWrite"}
         => /\ Len(sent) <= Len(Handshake)
            /\ sent = SubSeq(Handshake, 1, Len(sent))
            /\ rpc[conn] = "none"
    /\ pc \in {"Listen", "Select", "PingWrite", "ListenFailed"}
         => /\ Len(sent) >= Len(Handshake)
            /\ SubSeq(sent, 1, Len(Handshake)) = Handshake
            /\ \A i \in (Len(Handshake) + 1)..Len(sent) : sent[i] = Ping
    /\ (pc = "InitFailed" /\ err \in {"token_send", "subscribe"})
         => (rpc[conn] = "none" /\ Len(sent) < Len(Handshake))

\* C14 witness: a session with a non-empty token has sent the token, the
\* subscribe frame and then a ping, and its reader has been started.
C14_Witness ==
    /\ pc = "Select" /\ token # ""
    /\ sent = <<token, Channels[1], Ping>>
    /\ rpc[conn] # "none"

\* A reader goroutine that has been started and has neither returned nor died.
Alive(s) == rpc[s] \in {"loop", "reading", "process", "send"}

\* C15: while a session is listening, the reader of every earlier Listen call
\* has terminated, so at most one reader is alive.
C15_OneReader ==
    pc \in {"Select", "PingWrite"} =>
        /\ \A s \in Conns \ {conn} : ~Alive(s)
        /\ Cardinality({s \in Conns : Alive(s)}) <= 1

\* The session on connection c reached the listening state and its Listen
\* has been left.
Ended(c) == rpc[c] # "none" /\ ~(c = conn /\ pc \in {"Select", "PingWrite"})

\* C16: a session that reached the listening state and has ended has been
\* closed exactly once; no connection is closed twice.
C16_ClosedOnce ==
    \A c \in Conns :
        /\ closes[c] <= 1
        /\ Ended(c) => closes[c] = 1

\* C17: at most one WriteMessage call is in progress on a connection at any
\* time; none is in progress when Listen starts or while it waits in its
\* select, and the only write made after that is the ping, on the session's
\* own connection.
C17_NoWriteRace ==
    /\ \A c \in Conns : inflight[c] <= 1
    /\ \A c \in Conns : inflight[c] > 0 =>
          (c = conn /\ pc \in {"TokenWrite", "SubscribeWrite", "PingWrite"})
    /\ pc \in {"TokenWrite", "SubscribeWrite", "PingWrite"} => inflight[conn] = 1
    /\ pc = "PingWrite" => Len(sent) >= Len(Handshake)

\* C17 witness: a ping is being written after an earlier ping of the same
\* session was written.
C17_Witness == pc = "PingWrite" /\ inflight[conn] = 1 /\ Pings >= 1

\* C18: the frames of a connection are taken one at a time: while a reader
\* is processing a frame of connection c, no other reader is receiving from c
\* or processing a frame of c.
C18_ArrivalOrder ==
    \A c \in Conns : \A s1, s2 \in Conns :
        (s1 # s2 /\ rpc[s1] = "process" /\ rconn[s1] = c)
            => ~(rpc[s2] \in {"reading", "process"} /\ rconn[s2] = c)

\* C19: main leaves a failure branch only to the sleep (or exits); a new
\* outer iteration is entered only from the sleep, and a token request or a
\* dial is made only inside an iteration, after its Initialize.
C19_BackoffOrdering ==
    [][/\ (pc \in {"InitFailed", "ListenFailed"} /\ pc' # pc) => pc' = "Sleep"
       /\ (pc' = "Initialize" /\ pc # "Initialize") => pc = "Sleep"
       /\ (pc' = "InitUpdateToken" /\ pc # pc') => pc = "Initialize"
       /\ (pc' = "Dial" /\ pc # pc') => pc \in {"ConnectCheck", "ConnUpdateToken"}
       /\ (pc' = "ConnectCheck" /\ pc # pc') => pc = "InitUpdateToken"]_vars

\* C19 witness: a second outer iteration is about to request a token, after
\* the sleep that followed the failure of the first.
C19_Witness == pc = "InitUpdateToken" /\ fails = 1 /\ retries = 0

\* C20: once the reader of the listening session has hit a receive error and
\* is offering it on done, Listen returns to main (or the process has ended).
C20_DoneReceived ==
    (pc \in {"Select", "PingWrite"} /\ rpc[conn] = "send")
        ~> (pc = "ListenFailed" \/ proc # "running")

\* C20 witness: the reader's error has been received from done and Listen
\* has returned it to main.
C20_Witness == pc = "ListenFailed" /\ err = "reader" /\ rpc[conn] = "exit" /\ Pings >= 1

====
